---- MODULE Spec2Model ----
(***************************************************************************)
(* A model of filter_responses.py: ResponseFilter (the filtering pass over *)
(* an HTTP access log), TextFileFilter (the deduplication pass) and the    *)
(* script entry point.                                                     *)
(*                                                                         *)
(* A Python str is modelled as a sequence of one-character strings, a      *)
(* Python list as a sequence, a Python set as a set.  A file is the        *)
(* sequence of its characters.                                             *)
(***************************************************************************)
EXTENDS Integers, Sequences, FiniteSets, TLC

VARIABLES
    fs,                 \* file system: file name -> characters, or NoFile
    denied,             \* the file names that may not be opened for reading
    pc,                 \* where the running operation stands
    target,             \* remove_duplicates: the filename argument
    pending,            \* the lines `for line in input_file` has yet to yield
    filtered_lines,     \* remove_duplicates: the set still to be written
    line,               \* the line in hand
    last_path_element,  \* the local of that name (line 64)
    response_code,      \* the local of that name (line 66)
    extension_filter,   \* self._extension_filter
    path_element,       \* argument of _last_path_element_passes_extension_filter
    passes,             \* its return value
    recs,               \* history: the records the input file was written from
    consumed,           \* history: how many lines the loop has taken
    fs_at_call,         \* history: the file system when the operation was called
    trace,              \* history: the operations completed, in order
    runs,               \* history: the file's line set after each deduplication
    final_newline,      \* history: whether the input file's last line ended in a newline
    stdin_filename      \* entry point: the filename read by input()

vars == <<fs, denied, pc, target, pending, filtered_lines, line,
          last_path_element, response_code, extension_filter, path_element,
          passes, recs, final_newline, consumed, fs_at_call, trace, runs,
          stdin_filename>>

-----------------------------------------------------------------------------
(* Characters and Python's str operations *)

SP == " "
QT == "\""
NL == "\n"
TAB == "\t"
SL == "/"

UpperCase == <<"A","B","C","D","E","F","G","H","I","J","K","L","M",
               "N","O","P","Q","R","S","T","U","V","W","X","Y","Z">>
LowerCase == <<"a","b","c","d","e","f","g","h","i","j","k","l","m",
               "n","o","p","q","r","s","t","u","v","w","x","y","z">>

\* str.lower() on one character
lower_char(c) ==
    IF \E i \in DOMAIN UpperCase : UpperCase[i] = c
    THEN LowerCase[CHOOSE i \in DOMAIN UpperCase : UpperCase[i] = c]
    ELSE c

\* str.lower()
lower(s) == [i \in 1..Len(s) |-> lower_char(s[i])]

\* str.endswith(suffix)
endswith(s, suffix) ==
    /\ Len(suffix) <= Len(s)
    /\ SubSeq(s, Len(s) - Len(suffix) + 1, Len(s)) = suffix

\* str.split(sep) for a one-character sep: every occurrence cuts, empty
\* strings are kept, the result is never empty
RECURSIVE split(_, _)
split(s, sep) ==
    IF \A i \in 1..Len(s) : s[i] # sep
    THEN <<s>>
    ELSE LET k == CHOOSE i \in 1..Len(s) :
                     s[i] = sep /\ \A j \in 1..(i - 1) : s[j] # sep
         IN  <<SubSeq(s, 1, k - 1)>> \o split(SubSeq(s, k + 1, Len(s)), sep)

\* the values that are not strings
IndexError == <<"IndexError">>
NoFile == <<"ENOENT">>
Unset == <<"unset">>
PyTrue == <<"True">>
PyNone == <<"None">>

\* Python's truth value of a return value
truthy(v) == v = PyTrue

\* a variant of py_index that yields the empty string where Python raises
py_index_lenient(list, i) ==
    IF 0 <= i /\ i < Len(list) THEN list[i + 1]
    ELSE IF i < 0 /\ -i <= Len(list) THEN list[Len(list) + i + 1]
    ELSE <<>>

\* list[i] with Python's 0-based index i: a negative index counts from the end
py_index(list, i) ==
    IF 0 <= i /\ i < Len(list) THEN list[i + 1]
    ELSE IF i < 0 /\ -i <= Len(list) THEN list[Len(list) + i + 1]
    ELSE IndexError

-----------------------------------------------------------------------------
(* ResponseFilter *)

\* __init__: the file name prefix and the output file name
_filtered_elements_filename_start == <<"g","i","f","s","_">>
filtered_elements_filename(filename) == _filtered_elements_filename_start \o filename

\* the response_code_filter of the reference driver
_code_filter == <<"2","0","0">>

\* a variant that returns the whole request path
_get_last_path_element_from_log_whole(l) ==
    LET request_param == py_index(split(l, QT), 1) IN
    IF request_param = IndexError THEN IndexError
    ELSE py_index(split(request_param, SP), 1)

_get_last_path_element_from_log(l) ==
    LET request_param == py_index(split(l, QT), 1) IN
    IF request_param = IndexError THEN IndexError
    ELSE LET file_path == py_index(split(request_param, SP), 1) IN
         IF file_path = IndexError THEN IndexError
         ELSE LET path_elements == split(file_path, SL)
              IN  py_index(path_elements, Len(path_elements) - 1)

_last_path_element_passes_extension_filter(ext, element) ==
    IF endswith(lower(element), ext) THEN PyTrue ELSE PyNone

\* a variant that takes the last element, the byte count
_get_response_code_from_log_last(l) ==
    LET response_elements == split(l, SP)
    IN  py_index(response_elements, Len(response_elements) - 1)

_get_response_code_from_log(l) ==
    LET response_elements == split(l, SP)
    IN  py_index(response_elements, Len(response_elements) - 2)

\* a variant that lets every response code pass
_response_code_passes_filter_any(code) == TRUE

_response_code_passes_filter(code) == code = _code_filter

\* a variant that writes the element without a newline
written_line_bare(element) == element

\* line 68: what is written for a passing line
written_line(element) == element \o <<NL>>

-----------------------------------------------------------------------------
(* Log lines in the common log format                                      *)
(*   host ident authuser [timestamp] "METHOD path protocol" status bytes   *)
(* written from a record of their fields, so that what the parsers return  *)
(* can be compared with the fields the line was written from.              *)

Host == <<"h","o","s","t">>
Dash == <<"-">>
Timestamp == <<"[","0","1","/","J","u","l",":","0","6",SP,"-","0","4","]">>
Method == <<"G","E","T">>
Protocol == <<"H","T","T","P","/","1",".","0">>
Bytes == <<"7","8","6">>

Dir == <<"i","m","g">>
Gif == <<"a",".","g","i","f">>
GifUpper == <<"A",".","G","I","F">>
Html == <<"b",".","h","t","m","l">>
Code200 == <<"2","0","0">>
Code304 == <<"3","0","4">>

RECURSIVE path_of(_, _)
path_of(dirs, file) ==
    IF dirs = <<>> THEN <<SL>> \o file
    ELSE <<SL>> \o Head(dirs) \o path_of(Tail(dirs), file)

request_of(r) == Method \o <<SP>> \o path_of(r.dirs, r.file) \o <<SP>> \o Protocol

FormatLine(r) ==
    CASE r.kind = "ok" ->
            r.indent \o Host \o r.sep \o Dash \o r.sep \o Dash \o r.sep \o Timestamp
            \o r.sep \o <<QT>> \o request_of(r) \o <<QT>>
            \o r.sep \o r.status \o r.sep \o Bytes \o r.trail
      [] r.kind = "no_quotes" ->
            Host \o <<SP>> \o Timestamp \o <<SP>> \o request_of(r)
            \o <<SP>> \o r.status \o <<SP>> \o Bytes
      [] r.kind = "no_request_space" ->
            Host \o <<SP>> \o Timestamp \o <<SP, QT>> \o Method \o <<QT, SP>>
            \o r.status \o <<SP>> \o Bytes
      [] r.kind = "no_path_token" ->
            Host \o <<SP>> \o Timestamp \o <<SP, QT>> \o Method \o <<SP>> \o Protocol
            \o <<QT, SP>> \o r.status \o <<SP>> \o Bytes
      [] r.kind = "no_status" ->
            Host \o <<SP>> \o Timestamp \o <<SP, QT>> \o request_of(r) \o <<QT, SP>>
            \o Bytes

Rec(kind, indent, dirs, file, status, sep, trail) ==
    [kind |-> kind, indent |-> indent, dirs |-> dirs, file |-> file,
     status |-> status, sep |-> sep, trail |-> trail]

\* the records of a log file: single spaces between the fields
Plain(kind, indent, dirs, file, status) ==
    Rec(kind, indent, dirs, file, status, <<SP>>, <<>>)

WellFormedRecords ==
    { Plain("ok", <<>>, <<Dir>>, Gif, Code200),
      Plain("ok", <<SP, SP>>, <<Dir, Dir>>, GifUpper, Code200),
      Plain("ok", <<>>, <<>>, Gif, Code304),
      Plain("ok", <<>>, <<Dir>>, <<>>, Code200),
      Plain("ok", <<>>, <<Dir>>, Html, Code200) }

MalformedRecords ==
    { Plain(k, <<>>, <<Dir>>, Gif, Code200) :
        k \in {"no_quotes", "no_request_space", "no_path_token", "no_status"} }

-----------------------------------------------------------------------------
(* Text files *)

\* a text file's characters: its lines, each ended by a newline, the last one
\* only when ended
RECURSIVE file_of(_, _)
file_of(lines, ended) ==
    IF lines = <<>> THEN <<>>
    ELSE IF Len(lines) = 1
         THEN Head(lines) \o (IF ended THEN <<NL>> ELSE <<>>)
         ELSE Head(lines) \o <<NL>> \o file_of(Tail(lines), ended)

\* file.readlines(), and the lines `for line in file` yields: each line with
\* its newline, the last one as it is
RECURSIVE readlines(_)
readlines(chars) ==
    IF chars = <<>> THEN <<>>
    ELSE IF \A i \in 1..Len(chars) : chars[i] # NL THEN <<chars>>
    ELSE LET k == CHOOSE i \in 1..Len(chars) :
                     chars[i] = NL /\ \A j \in 1..(i - 1) : chars[j] # NL
         IN  <<SubSeq(chars, 1, k)>> \o readlines(SubSeq(chars, k + 1, Len(chars)))

\* the elements of a sequence
Range(seq) == { seq[i] : i \in DOMAIN seq }

\* a variant of set_of that takes lines that differ in letter case as equal
set_of_lowered(list) == { lower(list[i]) : i \in DOMAIN list }

\* set(list)
set_of(list) == { list[i] : i \in DOMAIN list }

\* open(name, 'r') succeeds
can_read(name) == fs[name] # NoFile /\ name \notin denied

-----------------------------------------------------------------------------
(* Bounds and initial files *)

MaxLines == 3
MaxTextLines == 3
MaxDedupRuns == 2

BoundedSeq(S, n) == UNION { [1..k -> S] : k \in 0..n }

\* the file names: the log, the output file made from its name, a text file
InputName == <<"l","o","g">>
OutputName == filtered_elements_filename(InputName)
TextName == <<"t","x","t">>

\* what an output file left by an earlier run holds
Stale == <<"o","l","d",NL,"o","l","d",NL>>

log_lines(rs) == [i \in 1..Len(rs) |-> FormatLine(rs[i])]

Idle ==
    /\ pc = "idle"
    /\ target = Unset
    /\ pending = <<>>
    /\ filtered_lines = {}
    /\ line = Unset
    /\ last_path_element = Unset
    /\ response_code = Unset
    /\ path_element = Unset
    /\ passes = Unset
    /\ consumed = 0
    /\ trace = <<>>
    /\ runs = <<>>
    /\ stdin_filename = Unset

\* a log file of at most MaxLines lines, a missing one, or an unreadable one;
\* the output file is absent or left by an earlier run
InitFiles ==
    /\ \/ /\ recs \in BoundedSeq(WellFormedRecords \cup MalformedRecords, MaxLines)
          /\ final_newline \in BOOLEAN
          /\ recs = <<>> => final_newline
          /\ \E old \in {NoFile, Stale} :
                fs = (InputName :> file_of(log_lines(recs), final_newline))
                     @@ (OutputName :> old)
          /\ denied = {}
       \/ /\ recs = <<>>
          /\ final_newline = TRUE
          /\ \E old \in {NoFile, Stale} :
                fs = (InputName :> NoFile) @@ (OutputName :> old)
          /\ denied = {}
       \/ /\ recs \in [1..1 -> WellFormedRecords]
          /\ final_newline = TRUE
          /\ \E old \in {NoFile, Stale} :
                fs = (InputName :> file_of(log_lines(recs), final_newline))
                     @@ (OutputName :> old)
          /\ denied = {InputName}
    /\ fs_at_call = fs

Init ==
    /\ InitFiles
    /\ extension_filter = <<".","g","i","f">>
    /\ Idle

-----------------------------------------------------------------------------
(* ResponseFilter.create_new_file_with_filtered_elements *)

\* a variant that opens the output file before the input file
FilterOpenInput_OutputFirst ==
    /\ pc = "idle"
    /\ \A i \in DOMAIN trace : trace[i] # "filter"
    /\ fs_at_call' = fs
    /\ consumed' = 0
    /\ fs' = [fs EXCEPT ![OutputName] = <<>>]
    /\ IF can_read(InputName)
       THEN /\ pending' = readlines(fs[InputName])
            /\ pc' = "filter_loop"
       ELSE /\ pc' = "io_error"
            /\ UNCHANGED pending
    /\ UNCHANGED <<denied, target, filtered_lines, line, last_path_element,
                   response_code, extension_filter, path_element, passes, recs,
                   final_newline, trace, runs, stdin_filename>>

\* line 61: open(self._filename, 'r')
FilterOpenInput ==
    /\ pc = "idle"
    /\ \A i \in DOMAIN trace : trace[i] # "filter"
    /\ fs_at_call' = fs
    /\ consumed' = 0
    /\ IF can_read(InputName)
       THEN /\ pending' = readlines(fs[InputName])
            /\ pc' = "filter_open_output"
       ELSE /\ pc' = "io_error"
            /\ UNCHANGED pending
    /\ UNCHANGED <<fs, denied, target, filtered_lines, line, last_path_element,
                   response_code, extension_filter, path_element, passes, recs,
                   final_newline, trace, runs, stdin_filename>>

\* line 62: open(self.filtered_elements_filename, 'w')
FilterOpenOutput ==
    /\ pc = "filter_open_output"
    /\ fs' = [fs EXCEPT ![OutputName] = <<>>]
    /\ pc' = "filter_loop"
    /\ UNCHANGED <<denied, target, pending, filtered_lines, line,
                   last_path_element, response_code, extension_filter,
                   path_element, passes, recs, final_newline, consumed,
                   fs_at_call, trace, runs, stdin_filename>>

\* lines 63-68: one turn of the loop
FilterLine ==
    /\ pc = "filter_loop"
    /\ pending # <<>>
    /\ line' = Head(pending)
    /\ pending' = Tail(pending)
    /\ consumed' = consumed + 1
    /\ LET element == _get_last_path_element_from_log(Head(pending))
           code == _get_response_code_from_log(Head(pending))
       IN  IF element = IndexError
           THEN /\ pc' = "parse_error"
                /\ UNCHANGED <<fs, last_path_element, response_code>>
           ELSE /\ last_path_element' = element
                /\ IF truthy(_last_path_element_passes_extension_filter(
                                extension_filter, element))
                   THEN IF code = IndexError
                        THEN /\ pc' = "parse_error"
                             /\ UNCHANGED <<fs, response_code>>
                        ELSE /\ response_code' = code
                             /\ pc' = "filter_loop"
                             /\ IF _response_code_passes_filter(code)
                                THEN fs' = [fs EXCEPT ![OutputName] =
                                                @ \o written_line(element)]
                                ELSE UNCHANGED fs
                   ELSE /\ pc' = "filter_loop"
                        /\ UNCHANGED <<fs, response_code>>
    /\ UNCHANGED <<denied, target, filtered_lines, extension_filter,
                   path_element, passes, recs, final_newline, fs_at_call,
                   trace, runs, stdin_filename>>

\* the loop ends, both files are closed
FilterClose ==
    /\ pc = "filter_loop"
    /\ pending = <<>>
    /\ pc' = "idle"
    /\ trace' = Append(trace, "filter")
    /\ UNCHANGED <<fs, denied, target, pending, filtered_lines, line,
                   last_path_element, response_code, extension_filter,
                   path_element, passes, recs, final_newline, consumed,
                   fs_at_call, runs, stdin_filename>>

-----------------------------------------------------------------------------
(* TextFileFilter.remove_duplicates *)

\* a variant that writes the line without its last character
dedup_written_stripped(l) == SubSeq(l, 1, Len(l) - 1)

\* line 88: what is written for a line of the set
dedup_written(l) == l

\* lines 83-84: open(filename, 'r'), set(file.readlines())
DedupRead(filename) ==
    /\ pc = "idle"
    /\ Len(runs) < MaxDedupRuns
    /\ fs_at_call' = fs
    /\ target' = filename
    /\ IF can_read(filename)
       THEN /\ filtered_lines' = set_of(readlines(fs[filename]))
            /\ pc' = "dedup_open_write"
       ELSE /\ pc' = "io_error"
            /\ UNCHANGED filtered_lines
    /\ UNCHANGED <<fs, denied, pending, line, last_path_element, response_code,
                   extension_filter, path_element, passes, recs, final_newline,
                   consumed, trace, runs, stdin_filename>>

\* line 86: open(filename, 'w')
DedupOpenWrite ==
    /\ pc = "dedup_open_write"
    /\ fs' = [fs EXCEPT ![target] = <<>>]
    /\ pc' = "dedup_loop"
    /\ UNCHANGED <<denied, target, pending, filtered_lines, line,
                   last_path_element, response_code, extension_filter,
                   path_element, passes, recs, final_newline, consumed,
                   fs_at_call, trace, runs, stdin_filename>>

\* lines 87-88: one turn of the loop; a set is iterated in any order
DedupWriteLine ==
    /\ pc = "dedup_loop"
    /\ \E l \in filtered_lines :
          /\ fs' = [fs EXCEPT ![target] = @ \o dedup_written(l)]
          /\ filtered_lines' = filtered_lines \ {l}
    /\ UNCHANGED <<denied, pc, target, pending, line, last_path_element,
                   response_code, extension_filter, path_element, passes, recs,
                   final_newline, consumed, fs_at_call, trace, runs,
                   stdin_filename>>

\* the loop ends, the file is closed
DedupClose ==
    /\ pc = "dedup_loop"
    /\ filtered_lines = {}
    /\ pc' = "idle"
    /\ trace' = Append(trace, "dedup")
    /\ runs' = Append(runs, Range(readlines(fs[target])))
    /\ UNCHANGED <<fs, denied, target, pending, filtered_lines, line,
                   last_path_element, response_code, extension_filter,
                   path_element, passes, recs, final_newline, consumed,
                   fs_at_call, stdin_filename>>

\* the filtering pass, and the deduplication pass on its output file
Next ==
    \/ FilterOpenInput
    \/ FilterOpenOutput
    \/ FilterLine
    \/ FilterClose
    \/ DedupRead(OutputName)
    \/ DedupOpenWrite
    \/ DedupWriteLine
    \/ DedupClose

Spec == Init /\ [][Next]_vars

-----------------------------------------------------------------------------
(* The filtering pass: claims *)

\* the record's line passes both filters
matches(r) ==
    /\ truthy(_last_path_element_passes_extension_filter(extension_filter, r.file))
    /\ r.status = _code_filter

\* the file names of the matching records, in order, one per line
RECURSIVE expected_output(_)
expected_output(rs) ==
    IF rs = <<>> THEN <<>>
    ELSE (IF matches(Head(rs)) THEN Head(rs).file \o <<NL>> ELSE <<>>)
         \o expected_output(Tail(rs))

AllWellFormed == \A i \in DOMAIN recs : recs[i].kind = "ok"

\* the last operation completed is the filtering pass
FilterJustDone ==
    /\ pc = "idle"
    /\ trace # <<>>
    /\ trace[Len(trace)] = "filter"

\* C1: when every line of the input file is well-formed, the output file holds
\* after the filtering pass exactly the last path elements of the lines that
\* pass both filters, in input order, one per line and once per occurrence.
C1_FilterOutput ==
    (FilterJustDone /\ AllWellFormed) =>
        fs[OutputName] = expected_output(recs)

\* a passing line, a line that does not pass, the same passing line again:
\* written twice, over what an earlier run left
C1_Witness ==
    /\ FilterJustDone
    /\ AllWellFormed
    /\ Len(recs) = 3
    /\ recs[1] = recs[3]
    /\ matches(recs[1])
    /\ ~matches(recs[2])
    /\ fs_at_call[OutputName] = Stale
    /\ fs[OutputName] = Gif \o <<NL>> \o Gif \o <<NL>>

\* C6 as stated: a malformed line ends the run in a parse failure when the
\* loop takes it, so the loop never gets past one.
C6_MalformedAborts ==
    \A k \in DOMAIN recs :
        (recs[k].kind # "ok" /\ consumed >= k) =>
            (consumed = k /\ pc = "parse_error")

\* the malformed lines that raise: no '"' in the line, or no space in the
\* quoted request field
raises(r) == r.kind \in {"no_quotes", "no_request_space"}

\* C6, amended: a line without a '"', or whose quoted request field holds no
\* space, ends the run in a parse failure when the loop takes it: it is not
\* skipped, it is not written, and no line after it is taken.
C6_RaisingLineAborts ==
    \A k \in DOMAIN recs :
        (raises(recs[k]) /\ consumed >= k) =>
            /\ consumed = k
            /\ pc = "parse_error"
            /\ (\A i \in 1..(k - 1) : recs[i].kind = "ok") =>
                  fs[OutputName] = expected_output(SubSeq(recs, 1, k - 1))

\* a raising line in the middle of the file, after a line that was written
C6_Witness ==
    /\ pc = "parse_error"
    /\ Len(recs) = 3
    /\ consumed = 2
    /\ raises(recs[2])
    /\ matches(recs[1])
    /\ fs[OutputName] = Gif \o <<NL>>

\* C7: an operation whose file cannot be opened for reading leaves the file
\* system as it was: the filtering pass has not created or truncated its
\* output file, the deduplication pass has written nothing.
C7_IOErrorLeavesFiles ==
    pc = "io_error" => fs = fs_at_call

\* the filtering pass fails on a missing log while an output file of an
\* earlier run exists
C7_Witness ==
    /\ pc = "io_error"
    /\ target = Unset
    /\ fs[InputName] = NoFile
    /\ fs[OutputName] = Stale

\* the deduplication pass fails on a missing file
C7_WitnessDedup ==
    /\ pc = "io_error"
    /\ target = OutputName
    /\ fs[OutputName] = NoFile

\* the last two operations completed are the filtering pass and then the
\* deduplication pass
FilterThenDedupDone ==
    /\ pc = "idle"
    /\ Len(trace) >= 2
    /\ trace[Len(trace) - 1] = "filter"
    /\ trace[Len(trace)] = "dedup"

\* C10: after the filtering pass and then the deduplication pass on a
\* well-formed input file, the output file has no two equal lines, every
\* line of it ends in a newline, and its lines are the last path elements of
\* the input lines that pass both filters.
C10_FilterThenDedup ==
    (FilterThenDedupDone /\ AllWellFormed) =>
        LET lines == readlines(fs[OutputName]) IN
        /\ \A i, j \in DOMAIN lines : lines[i] = lines[j] => i = j
        /\ \A i \in DOMAIN lines : lines[i][Len(lines[i])] = NL
        /\ Range(lines) =
              { recs[i].file \o <<NL>> : i \in { j \in DOMAIN recs : matches(recs[j]) } }

\* an input without a final newline whose passing lines repeat: two distinct
\* lines are left
C10_Witness ==
    /\ FilterThenDedupDone
    /\ AllWellFormed
    /\ ~final_newline
    /\ Len(recs) = 3
    /\ recs[1] = recs[3]
    /\ matches(recs[1])
    /\ matches(recs[2])
    /\ recs[1] # recs[2]
    /\ Len(readlines(fs[OutputName])) = 2

-----------------------------------------------------------------------------
(* The deduplication pass on a text file *)

TextLines == { <<"a">>, <<"A">>, <<"b">>, <<>> }

\* a text file of at most MaxTextLines lines; its last line may lack the
\* newline when it is not empty
InitDedup ==
    /\ recs \in BoundedSeq(TextLines, MaxTextLines)
    /\ final_newline \in BOOLEAN
    /\ (recs = <<>> \/ recs[Len(recs)] = <<>>) => final_newline
    /\ fs = (TextName :> file_of(recs, final_newline))
    /\ fs_at_call = fs
    /\ denied = {}
    /\ extension_filter = Unset
    /\ Idle

NextDedup ==
    \/ DedupRead(TextName)
    \/ DedupOpenWrite
    \/ DedupWriteLine
    \/ DedupClose

SpecDedup == InitDedup /\ [][NextDedup]_vars

\* a deduplication pass has completed and none is running
DedupDone == pc = "idle" /\ runs # <<>>

\* C2: when every line of the file ends in a newline, the file holds after
\* remove_duplicates each distinct line of the original once and nothing
\* else, in any order; lines that differ in letter case stay distinct.
C2_DistinctLinesOnce ==
    (DedupDone /\ final_newline) =>
        LET lines == readlines(fs[TextName]) IN
        /\ \A i, j \in DOMAIN lines : lines[i] = lines[j] => i = j
        /\ Range(lines) = { recs[i] \o <<NL>> : i \in DOMAIN recs }
        /\ Len(lines) = Cardinality(Range(recs))

\* a line, the same in upper case, the first again: two lines are left
C2_Witness ==
    /\ DedupDone
    /\ final_newline
    /\ recs = << <<"a">>, <<"A">>, <<"a">> >>
    /\ Len(readlines(fs[TextName])) = 2

\* C3 as stated: for any file, a second deduplication pass leaves the set of
\* lines the first one left.
C3_Idempotent ==
    \A i \in DOMAIN runs : runs[i] = runs[1]

\* C3, amended: for a file whose lines all end in a newline, or that has one
\* line at most, every further deduplication pass leaves the set of lines
\* the first one left.
C3_IdempotentTerminated ==
    (final_newline \/ Len(recs) <= 1) =>
        \A i \in DOMAIN runs : runs[i] = runs[1]

\* a second pass over three distinct lines that wrote them in another order
C3_Witness ==
    /\ pc = "idle"
    /\ final_newline
    /\ Len(runs) >= 2
    /\ Cardinality(runs[2]) = 3
    /\ fs # fs_at_call

-----------------------------------------------------------------------------
(* The parsers and the extension filter on their own *)

Indents == { <<>>, <<SP, SP>> }
DirLists == { <<>>, <<Dir, Dir>> }
Files == { <<>>, Gif, GifUpper, Html }
Statuses == { Code200, Code304 }
Separators == { <<SP>>, <<SP, SP>>, <<TAB>> }
Trailers == { <<>>, <<SP>>, <<NL>> }

PureRecords ==
    { Rec("ok", i, d, f, st, sep, t) :
        i \in Indents, d \in DirLists, f \in Files, st \in Statuses,
        sep \in Separators, t \in Trailers }

ExtensionFilters == { <<".","g","i","f">>, <<".","G","I","F">> }
PathElements == { Gif, GifUpper, Html, <<>>, <<"g","i","f">>, <<SL,"d",SL>> }

InitPure ==
    /\ recs \in [1..1 -> PureRecords]
    /\ line = FormatLine(recs[1])
    /\ extension_filter \in ExtensionFilters
    /\ path_element \in PathElements
    /\ pc = "pure"
    /\ fs = (InputName :> NoFile)
    /\ fs_at_call = fs
    /\ denied = {}
    /\ final_newline = TRUE
    /\ target = Unset
    /\ pending = <<>>
    /\ filtered_lines = {}
    /\ last_path_element = Unset
    /\ response_code = Unset
    /\ passes = Unset
    /\ consumed = 0
    /\ trace = <<>>
    /\ runs = <<>>
    /\ stdin_filename = Unset

Call_get_last_path_element_from_log ==
    /\ pc = "pure"
    /\ last_path_element = Unset
    /\ last_path_element' = _get_last_path_element_from_log(line)
    /\ UNCHANGED <<fs, denied, pc, target, pending, filtered_lines, line,
                   response_code, extension_filter, path_element, passes, recs,
                   final_newline, consumed, fs_at_call, trace, runs,
                   stdin_filename>>

Call_get_response_code_from_log ==
    /\ pc = "pure"
    /\ response_code = Unset
    /\ response_code' = _get_response_code_from_log(line)
    /\ UNCHANGED <<fs, denied, pc, target, pending, filtered_lines, line,
                   last_path_element, extension_filter, path_element, passes,
                   recs, final_newline, consumed, fs_at_call, trace, runs,
                   stdin_filename>>

Call_last_path_element_passes_extension_filter ==
    /\ pc = "pure"
    /\ passes = Unset
    /\ passes' = _last_path_element_passes_extension_filter(extension_filter,
                                                            path_element)
    /\ UNCHANGED <<fs, denied, pc, target, pending, filtered_lines, line,
                   last_path_element, response_code, extension_filter,
                   path_element, recs, final_newline, consumed, fs_at_call,
                   trace, runs, stdin_filename>>

NextPure ==
    \/ Call_get_last_path_element_from_log
    \/ Call_get_response_code_from_log
    \/ Call_last_path_element_passes_extension_filter

SpecPure == InitPure /\ [][NextPure]_vars

\* C4 as stated: the extension filter passes a path element exactly when the
\* lower-cased element ends with the lower-cased configured extension.
C4_CaseInsensitiveBothSides ==
    passes # Unset =>
        (truthy(passes) <=> endswith(lower(path_element), lower(extension_filter)))

\* C8: for a well-formed log line, _get_last_path_element_from_log returns
\* the last '/'-delimited segment of the request path, the empty string for
\* a path that ends in '/'.
C8_LastPathElement ==
    last_path_element # Unset => last_path_element = recs[1].file

\* a path that ends in '/', below two directories
C8_Witness ==
    /\ last_path_element = <<>>
    /\ recs[1].file = <<>>
    /\ recs[1].dirs = <<Dir, Dir>>

C8_WitnessFile ==
    /\ last_path_element = GifUpper
    /\ recs[1].dirs = <<Dir, Dir>>

\* str.split() without a separator: the tokens between runs of whitespace
whitespace == { SP, TAB, NL }
RECURSIVE split_whitespace(_)
split_whitespace(s) ==
    IF s = <<>> THEN <<>>
    ELSE IF Head(s) \in whitespace THEN split_whitespace(Tail(s))
    ELSE LET n == IF \E i \in 1..Len(s) : s[i] \in whitespace
                  THEN (CHOOSE i \in 1..Len(s) :
                           s[i] \in whitespace /\ \A j \in 1..(i - 1) : s[j] \notin whitespace) - 1
                  ELSE Len(s)
         IN  <<SubSeq(s, 1, n)>> \o split_whitespace(SubSeq(s, n + 1, Len(s)))

second_to_last_token(s) ==
    LET tokens == split_whitespace(s) IN tokens[Len(tokens) - 1]

\* C9 as stated: whatever the whitespace between and around the fields,
\* _get_response_code_from_log returns the second-to-last
\* whitespace-separated token of the line.
C9_AnyWhitespace ==
    response_code # Unset => response_code = second_to_last_token(line)

\* C9, amended: for a well-formed line whose fields are separated by single
\* spaces, with or without leading indentation and with or without a
\* trailing newline, _get_response_code_from_log returns the second-to-last
\* whitespace-separated token of the line, its status code.
C9_SingleSpaces ==
    (/\ response_code # Unset
     /\ recs[1].sep = <<SP>>
     /\ recs[1].trail \in { <<>>, <<NL>> }) =>
        /\ response_code = second_to_last_token(line)
        /\ response_code = recs[1].status

\* an indented line that ends in a newline
C9_Witness ==
    /\ response_code = Code304
    /\ recs[1].sep = <<SP>>
    /\ recs[1].trail = <<NL>>
    /\ recs[1].indent = <<SP, SP>>

-----------------------------------------------------------------------------
(* The script entry point, lines 202-209 *)

InitMain ==
    /\ InitFiles
    /\ extension_filter = Unset
    /\ target = Unset
    /\ pending = <<>>
    /\ filtered_lines = {}
    /\ line = Unset
    /\ last_path_element = Unset
    /\ response_code = Unset
    /\ path_element = Unset
    /\ passes = Unset
    /\ consumed = 0
    /\ trace = <<>>
    /\ runs = <<>>
    /\ stdin_filename = Unset
    /\ pc = "main_input"

\* line 203: filename = input()
MainInput ==
    /\ pc = "main_input"
    /\ \E name \in {InputName, OutputName} : stdin_filename' = name
    /\ pc' = "main_unittest"
    /\ UNCHANGED <<fs, denied, target, pending, filtered_lines, line,
                   last_path_element, response_code, extension_filter,
                   path_element, passes, recs, final_newline, consumed,
                   fs_at_call, trace, runs>>

\* line 204: unittest.main() runs the module's tests and then raises
\* SystemExit (exit=True is its default), which ends the script; the tests
\* work on files of their own
MainUnittest ==
    /\ pc = "main_unittest"
    /\ pc' = "main_exit"
    /\ UNCHANGED <<fs, denied, target, pending, filtered_lines, line,
                   last_path_element, response_code, extension_filter,
                   path_element, passes, recs, final_newline, consumed,
                   fs_at_call, trace, runs, stdin_filename>>

NextMain ==
    \/ MainInput
    \/ MainUnittest

SpecMain == InitMain /\ [][NextMain]_vars /\ WF_vars(NextMain)

\* the filtering pass on the file read from standard input has been entered
FilterPassEntered ==
    \/ pc \in {"filter_open_output", "filter_loop", "parse_error", "io_error"}
    \/ \E i \in DOMAIN trace : trace[i] = "filter"

\* C5 as stated: every run of the entry point that has read a filename
\* eventually reaches the filtering pass.
C5_ReachesFilterPass ==
    (stdin_filename # Unset) ~> FilterPassEntered

====
